---- MODULE Spec2Model ----
(***************************************************************************)
(* Staffing backend: users, kitchens and shops with per-shift team         *)
(* rosters, derived availability, history collections and notifications.   *)
(* Each request handler is a function from the store and the request to    *)
(* the store it commits and the status it replies; one action per handler  *)
(* applies it.  An aborted transaction commits the store it started from.  *)
(***************************************************************************)
EXTENDS Integers, Sequences, FiniteSets, TLC

\* ---------------------------------------------------------------- bounds
NumUsers == 2
MaxIds == 2
MaxOps == 2

\* ------------------------------------------------------------- constants
UserIds == 1..NumUsers
Kitchens == {"k1"}
Shops == {"s1", "s2"}
Sites == Kitchens \cup Shops
MissingSite == "s0"
SiteInputs == Sites \cup {MissingSite}
None == "none"
Absent == "absent"

ShiftType == {"Morning", "Afternoon", "Night", "Both"}
\* (site, shiftType) pairs a roster request is sent to: operating shifts, a
\* valid shift type the site does not operate, an unknown site, a bad shift.
RosterTargets ==
  {<<"k1", "Morning">>, <<"s1", "Morning">>, <<"s1", "Afternoon">>,
   <<"s1", "Night">>, <<"s2", "Morning">>}
BadTargets == {<<"s0", "Morning">>, <<"s1", "Evening">>}
InitShifts == <<"Morning", "Afternoon">>
\* operatingShifts of an update request: not supplied, one of the current
\* shifts, or a shift the site did not operate.
ShiftUpdates == {Absent, <<"Morning">>, <<"Night">>}

AVAILABLE == "Available"
UNAVAILABLE == "Unavailable"

ASSIGNED_TO_KITCHEN == "AssignedToKitchen"
UNASSIGNED_FROM_KITCHEN == "UnassignedFromKitchen"
ASSIGNED_TO_SHOP == "AssignedToShop"
UNASSIGNED_FROM_SHOP == "UnassignedFromShop"
AVAILABILITY_UPDATED == "AvailabilityUpdated"

\* Transaction sessions of requests that run concurrently.
Txs == {1, 2}

VARIABLES users, sites, availabilityHistory, userHistory, notifications, res, nops,
          sessions, committed, origin

vars == <<users, sites, availabilityHistory, userHistory, notifications, res, nops,
          sessions, committed, origin>>

\* ------------------------------------------------------ sequence helpers
Range(s) == {s[i] : i \in 1..Len(s)}

includes(s, x) == x \in Range(s)

RECURSIVE filter(_, _)
filter(s, keep) ==
  IF s = <<>> THEN <<>>
  ELSE IF Head(s) \in keep THEN <<Head(s)>> \o filter(Tail(s), keep)
       ELSE filter(Tail(s), keep)

indexOf(s, x) ==
  IF includes(s, x) THEN CHOOSE i \in 1..Len(s) : s[i] = x /\ \A j \in 1..(i - 1) : s[j] # x
  ELSE 0

splice1(s, i) == SubSeq(s, 1, i - 1) \o SubSeq(s, i + 1, Len(s))

RECURSIVE IdList(_)
IdList(S) ==
  IF S = {} THEN <<>>
  ELSE LET m == CHOOSE x \in S : \A y \in S : x <= y
       IN <<m>> \o IdList(S \ {m})

\* A userIds list that names the same user twice.
DupIds == <<1, 1>>

\* Request bodies: userIds lists of distinct ids in ascending order, and the
\* list with a repeated id.
IdSeqs ==
  {IdList(S) : S \in {T \in SUBSET UserIds : Cardinality(T) <= MaxIds}} \cup {DupIds}

\* ------------------------------------------------------------ User model
\* exists: the document is in the collection; removed: it was deleted (its
\* id is never issued again).
NewUser ==
  [exists |-> TRUE, removed |-> FALSE, manualAvailability |-> None,
   kitchenId |-> None, shopId |-> None, isAvailable |-> TRUE]

NoUser == [NewUser EXCEPT !.exists = FALSE]

RemovedUser == [NoUser EXCEPT !.removed = TRUE]

computedIsAvailableMutShop(user) ==
  IF user.manualAvailability = UNAVAILABLE THEN FALSE
  ELSE IF user.kitchenId # None THEN FALSE
  ELSE TRUE

computedIsAvailable(user) ==
  IF user.manualAvailability = UNAVAILABLE THEN FALSE
  ELSE IF user.kitchenId # None \/ user.shopId # None THEN FALSE
  ELSE TRUE

\* The variant without the hook's recomputation.
preSaveMutKeep(user) == user

preSave(user) == [user EXCEPT !.isAvailable = computedIsAvailable(user)]

statusOf(b) == IF b THEN AVAILABLE ELSE UNAVAILABLE

\* ------------------------------------------------------------ Site model
EmptyTeams == [k \in {} |-> <<>>]

NewSite == [isDeleted |-> FALSE, operatingShifts |-> InitShifts, teams |-> EmptyTeams]

teamsGet(site, shiftType) ==
  IF shiftType \in DOMAIN site.teams THEN site.teams[shiftType] ELSE <<>>

\* The variant that stores the map with the one entry only.
teamsSetMutOnly(teams, shiftType, team) == [k \in {shiftType} |-> team]

teamsSet(teams, shiftType, team) ==
  [k \in (DOMAIN teams) \cup {shiftType} |-> IF k = shiftType THEN team ELSE teams[k]]

teamsDelete(teams, shiftType) ==
  [k \in (DOMAIN teams) \ {shiftType} |-> teams[k]]

IsKitchen(siteId) == siteId \in Kitchens

siteRef(user, siteId) == IF IsKitchen(siteId) THEN user.kitchenId ELSE user.shopId

withSiteRef(user, siteId, v) ==
  IF IsKitchen(siteId) THEN [user EXCEPT !.kitchenId = v] ELSE [user EXCEPT !.shopId = v]

\* ----------------------------------------------------------- the store
\* db: users, sites (kitchens and shops), the AvailabilityHistory and
\* UserHistory collections (avail, hist) and the notifications (notes).
EmptyDb(registered) ==
  [users |-> [u \in UserIds |-> IF u \in registered THEN NewUser ELSE NoUser],
   sites |-> [s \in Sites |-> NewSite],
   avail |-> <<>>,
   hist |-> <<>>,
   notes |-> <<>>]

Done(db, status) == [db |-> db, status |-> status]

\* ------------------------------------------------------------- register
register(db, userId) ==
  Done([db EXCEPT !.users[userId] = preSave(NewUser)], 201)

\* ------------------------------------------- work inside one transaction
\* tx: the store as the transaction sees it, and err, set when a helper
\* throws.
Begin(db) == [db |-> db, err |-> FALSE]

unassignedAction(siteId) ==
  IF IsKitchen(siteId) THEN UNASSIGNED_FROM_KITCHEN ELSE UNASSIGNED_FROM_SHOP

assignedReason(siteId) ==
  IF IsKitchen(siteId) THEN "Assigned to kitchen shift" ELSE "Assigned to shop shift"

unassignedReason(shiftType) == "Unassigned from " \o shiftType \o " shift"

deletionReason(siteId) ==
  IF IsKitchen(siteId) THEN "Unassigned due to kitchen deletion"
  ELSE "Unassigned due to shop deletion"

deletedDetail(siteId) == IF IsKitchen(siteId) THEN "Kitchen deleted" ELSE "Shop deleted"

AdminReason == "Status updated by admin"

\* A document of the AvailabilityHistory collection.
AvailabilityHistory(userId, isAvailable, reason) ==
  [user |-> userId, status |-> statusOf(isAvailable), reason |-> reason]

\* A document of the UserHistory collection; site and reason are its details.
UserHistory(userId, action, siteId, reason) ==
  [user |-> userId, action |-> action, site |-> siteId, reason |-> reason]

assignedAction(siteId) ==
  IF IsKitchen(siteId) THEN ASSIGNED_TO_KITCHEN ELSE ASSIGNED_TO_SHOP

isUserAssignedToOtherShifts(site, shiftType, userId) ==
  \E shift \in DOMAIN site.teams : shift # shiftType /\ includes(site.teams[shift], userId)

\* The lossy variant: the site reference is dropped on every unassignment.
unassignUserFromSiteMutAlwaysClear(tx, userId, siteId, shiftType) ==
  IF tx.err \/ ~tx.db.users[userId].exists THEN [tx EXCEPT !.err = TRUE]
  ELSE LET user == withSiteRef(tx.db.users[userId], siteId, None)
           updatedIsAvailable == computedIsAvailable(user)
       IN [tx EXCEPT
             !.db.avail = Append(@, AvailabilityHistory(userId, updatedIsAvailable, unassignedReason(shiftType))),
             !.db.hist = Append(@, UserHistory(userId, unassignedAction(siteId), siteId, unassignedReason(shiftType))),
             !.db.users[userId] = preSave(user)]

\* unassignUserFromShop / unassignUserFromKitchen.  The site is read again
\* inside the transaction, which has not written it yet.
unassignUserFromSite(tx, userId, siteId, shiftType) ==
  IF tx.err \/ ~tx.db.users[userId].exists THEN [tx EXCEPT !.err = TRUE]
  ELSE LET found == tx.db.users[userId]
           user == IF ~isUserAssignedToOtherShifts(tx.db.sites[siteId], shiftType, userId)
                   THEN withSiteRef(found, siteId, None)
                   ELSE found
           updatedIsAvailable == computedIsAvailable(user)
       IN [tx EXCEPT
             !.db.avail = Append(@, AvailabilityHistory(userId, updatedIsAvailable, unassignedReason(shiftType))),
             !.db.hist = Append(@, UserHistory(userId, unassignedAction(siteId), siteId, unassignedReason(shiftType))),
             !.db.users[userId] = preSave(user)]

\* The variant that refuses a user who is not available.
assignUserToSiteMutChecked(tx, userId, siteId) ==
  IF tx.err \/ ~tx.db.users[userId].exists \/ ~computedIsAvailable(tx.db.users[userId])
  THEN [tx EXCEPT !.err = TRUE]
  ELSE LET user == withSiteRef(tx.db.users[userId], siteId, siteId)
           updatedIsAvailable == computedIsAvailable(user)
       IN [tx EXCEPT
             !.db.avail = Append(@, AvailabilityHistory(userId, updatedIsAvailable, assignedReason(siteId))),
             !.db.hist = Append(@, UserHistory(userId, assignedAction(siteId), siteId, assignedReason(siteId))),
             !.db.users[userId] = preSave(user)]

\* assignUserToShop / assignUserToKitchen.
assignUserToSite(tx, userId, siteId) ==
  IF tx.err \/ ~tx.db.users[userId].exists THEN [tx EXCEPT !.err = TRUE]
  ELSE LET user == withSiteRef(tx.db.users[userId], siteId, siteId)
           updatedIsAvailable == computedIsAvailable(user)
       IN [tx EXCEPT
             !.db.avail = Append(@, AvailabilityHistory(userId, updatedIsAvailable, assignedReason(siteId))),
             !.db.hist = Append(@, UserHistory(userId, assignedAction(siteId), siteId, assignedReason(siteId))),
             !.db.users[userId] = preSave(user)]

RECURSIVE unassignAll(_, _, _, _)
unassignAll(tx, ids, siteId, shiftType) ==
  IF ids = <<>> THEN tx
  ELSE unassignAll(unassignUserFromSite(tx, Head(ids), siteId, shiftType),
                   Tail(ids), siteId, shiftType)

RECURSIVE assignAll(_, _, _)
assignAll(tx, ids, siteId) ==
  IF ids = <<>> THEN tx
  ELSE assignAll(assignUserToSite(tx, Head(ids), siteId), Tail(ids), siteId)

\* sendAvailabilityNotification: one Notification document for the user.
sendAvailabilityNotification(notes, userId) == Append(notes, [userId |-> userId])

RECURSIVE notifyAll(_, _)
notifyAll(notes, ids) ==
  IF ids = <<>> THEN notes
  ELSE notifyAll(sendAvailabilityNotification(notes, Head(ids)), Tail(ids))

\* ------------------------------ assignUsersToShopShift / ...KitchenShift
\* The variant that takes the shift's roster to be empty.
currentUserIdsMutEmpty(site, shiftType) == <<>>

currentUserIds(site, shiftType) == teamsGet(site, shiftType)

usersToSetMutAll(current, userIds) == userIds

usersToUnset(current, userIds) == filter(current, Range(current) \ Range(userIds))

usersToSet(current, userIds) == filter(userIds, Range(userIds) \ Range(current))

\* The variant that looks the site up and ignores its isDeleted flag.
siteNotFoundMutIgnoreDeleted(db, siteId) == siteId \notin Sites

\* !shop || shop.isDeleted
siteNotFound(db, siteId) == siteId \notin Sites \/ db.sites[siteId].isDeleted

\* The variant in which a failed notification undoes the request.
notifyAfterCommitMutRollback(db, saved, ids, failed) ==
  IF Range(ids) \cap failed # {} THEN Done(db, 500)
  ELSE Done([saved EXCEPT !.notes = notifyAll(@, ids)], 200)

\* After commitTransaction: one sendAvailabilityNotification per helper
\* result, not awaited; those of the users in failed are rejected and
\* create nothing.  The reply is sent right after the calls.
notifyAfterCommit(db, saved, ids, failed) ==
  Done([saved EXCEPT !.notes = notifyAll(@, filter(ids, UserIds \ failed))], 200)

\* The handler, with the set of users whose notification cannot be saved.
assignUsersToSiteShiftNotifying(db, siteId, userIds, shiftType, failed) ==
  IF shiftType \notin ShiftType THEN Done(db, 400)
  ELSE IF siteNotFound(db, siteId) THEN Done(db, 404)
  ELSE LET current == currentUserIds(db.sites[siteId], shiftType)
           toUnset == usersToUnset(current, userIds)
           toSet == usersToSet(current, userIds)
           tx == assignAll(unassignAll(Begin(db), toUnset, siteId, shiftType), toSet, siteId)
           saved == [tx.db EXCEPT !.sites[siteId].teams = teamsSet(@, shiftType, userIds)]
       IN IF tx.err THEN Done(db, 500)
          ELSE notifyAfterCommit(db, saved, toUnset \o toSet, failed)

assignUsersToSiteShift(db, siteId, userIds, shiftType) ==
  assignUsersToSiteShiftNotifying(db, siteId, userIds, shiftType, {})

\* ------------------------------------------------ updateUserAvailability
removeFromTeams(teams, userId) ==
  [shiftType \in DOMAIN teams |->
     LET team == teams[shiftType]
         index == indexOf(team, userId)
     IN IF index # 0 THEN splice1(team, index) ELSE team]

\* handleUserUnavailability: the user's kitchen, then the user's shop, then
\* the user document.
handleUserUnavailability(db, userId) ==
  LET user == db.users[userId]
      k == user.kitchenId
      db1 == IF k # None
             THEN [db EXCEPT !.sites[k].teams = removeFromTeams(@, userId),
                             !.users[userId].kitchenId = None]
             ELSE db
      s == user.shopId
      db2 == IF s # None
             THEN [db1 EXCEPT !.sites[s].teams = removeFromTeams(@, userId),
                              !.users[userId].shopId = None]
             ELSE db1
  IN [db2 EXCEPT !.users[userId] = preSave(@)]

\* A write inside a transaction that the database rejects: the save of the
\* named user's document in the named collection.  NoFailure rejects none.
NoFailure == [write |-> "none", user |-> 0]

WriteKinds == {"availabilityHistory", "userHistory", "notification"}

fails(failed, write, userId) == failed = [write |-> write, user |-> userId]

\* The variant whose catch block keeps what was written before the error.
endTransactionMutKeep(db, tx) == Done(tx.db, IF tx.err THEN 500 ELSE 200)

\* commitTransaction, or the catch block: abortTransaction and next(error),
\* which the error middleware answers with 500.
endTransaction(db, tx) == IF tx.err THEN Done(db, 500) ELSE Done(tx.db, 200)

\* The handler; tx is the transaction up to the rejected write, or all of it.
updateUserAvailabilityFailing(db, userId, isAvailable, failed) ==
  IF ~db.users[userId].exists THEN Done(db, 404)
  ELSE LET user == [db.users[userId] EXCEPT
                      !.manualAvailability = IF isAvailable THEN None ELSE UNAVAILABLE]
           availabilityRecord == AvailabilityHistory(userId, computedIsAvailable(user), AdminReason)
           userHistoryRecord == UserHistory(userId, AVAILABILITY_UPDATED, None, AdminReason)
           recorded == [db EXCEPT !.avail = Append(@, availabilityRecord)]
           saved == [recorded EXCEPT !.hist = Append(@, userHistoryRecord),
                                     !.users[userId] = preSave(user)]
           handled == IF ~computedIsAvailable(user)
                      THEN handleUserUnavailability(saved, userId)
                      ELSE saved
           notified == [handled EXCEPT !.notes = sendAvailabilityNotification(@, userId)]
           tx == IF fails(failed, "availabilityHistory", userId) THEN [db |-> db, err |-> TRUE]
                 ELSE IF fails(failed, "userHistory", userId) THEN [db |-> recorded, err |-> TRUE]
                 ELSE IF fails(failed, "notification", userId) THEN [db |-> handled, err |-> TRUE]
                 ELSE [db |-> notified, err |-> FALSE]
       IN endTransaction(db, tx)

updateUserAvailability(db, userId, isAvailable) ==
  updateUserAvailabilityFailing(db, userId, isAvailable, NoFailure)

\* ------------------------------------------- deleteShop / deleteKitchen
batchUserMutNoRecompute(db, userId, siteId) ==
  LET user == withSiteRef(db.users[userId], siteId, None)
      updatedIsAvailable == computedIsAvailable(user)
  IN [db EXCEPT
        !.avail = Append(@, AvailabilityHistory(userId, updatedIsAvailable, deletionReason(siteId))),
        !.hist = Append(@, UserHistory(userId, unassignedAction(siteId), siteId, deletedDetail(siteId))),
        !.users[userId] = user]

\* One user of the bulk write: $unset of the reference, $set of isAvailable.
batchUser(db, userId, siteId) ==
  LET user == withSiteRef(db.users[userId], siteId, None)
      updatedIsAvailable == computedIsAvailable(user)
  IN [db EXCEPT
        !.avail = Append(@, AvailabilityHistory(userId, updatedIsAvailable, deletionReason(siteId))),
        !.hist = Append(@, UserHistory(userId, unassignedAction(siteId), siteId, deletedDetail(siteId))),
        !.users[userId] = [user EXCEPT !.isAvailable = updatedIsAvailable]]

RECURSIVE batchAll(_, _, _)
batchAll(db, ids, siteId) ==
  IF ids = <<>> THEN db
  ELSE batchAll(batchUser(db, Head(ids), siteId), Tail(ids), siteId)

\* unassignUsersFromShopBatch / unassignUsersFromKitchenBatch.
unassignUsersFromSiteBatch(db, usersAssigned, siteId) ==
  [batchAll(db, usersAssigned, siteId) EXCEPT !.notes = notifyAll(@, usersAssigned)]

usersAssignedTo(db, siteId) ==
  IdList({u \in UserIds : db.users[u].exists /\ siteRef(db.users[u], siteId) = siteId})

\* The batch up to a rejected write: the history documents are saved user
\* by user, then the bulk write updates the users, then the notifications
\* are saved one after the other.
unassignUsersFromSiteBatchFailing(db, usersAssigned, siteId, failed) ==
  LET index == indexOf(usersAssigned, failed.user)
      before == SubSeq(usersAssigned, 1, index - 1)
      histories == [batchAll(db, before, siteId) EXCEPT !.users = db.users]
      user == withSiteRef(db.users[failed.user], siteId, None)
      availabilityEntry ==
        AvailabilityHistory(failed.user, computedIsAvailable(user), deletionReason(siteId))
  IN IF index = 0 \/ failed.write \notin WriteKinds
     THEN [db |-> unassignUsersFromSiteBatch(db, usersAssigned, siteId), err |-> FALSE]
     ELSE IF failed.write = "availabilityHistory" THEN [db |-> histories, err |-> TRUE]
     ELSE IF failed.write = "userHistory"
     THEN [db |-> [histories EXCEPT !.avail = Append(@, availabilityEntry)], err |-> TRUE]
     ELSE [db |-> [batchAll(db, usersAssigned, siteId) EXCEPT !.notes = notifyAll(@, before)],
           err |-> TRUE]

deleteSiteFailing(db, siteId, failed) ==
  IF siteId \notin Sites THEN Done(db, 404)
  ELSE LET usersAssigned == usersAssignedTo(db, siteId)
           unassigned == unassignUsersFromSiteBatchFailing(db, usersAssigned, siteId, failed)
           teams == db.sites[siteId].teams
           saved == [unassigned.db EXCEPT
                       !.sites[siteId].teams = [shiftType \in DOMAIN teams |->
                           filter(teams[shiftType], UserIds \ Range(usersAssigned))],
                       !.sites[siteId].isDeleted = TRUE]
       IN IF unassigned.err THEN endTransaction(db, unassigned)
          ELSE endTransaction(db, [db |-> saved, err |-> FALSE])

deleteSite(db, siteId) == deleteSiteFailing(db, siteId, NoFailure)

\* --------------------------------------------- restoreShop / restoreKitchen
restoreSite(db, siteId) ==
  IF siteId \notin Sites THEN Done(db, 404)
  ELSE Done([db EXCEPT !.sites[siteId].isDeleted = FALSE], 200)

\* ------------------------------------------- updateShop / updateKitchen
\* The helper reads the site from the store, where the removals made so far
\* on the loaded document are not yet saved.
RECURSIVE unassignShifts(_, _, _)
unassignShifts(tx, removedShifts, siteId) ==
  IF removedShifts = <<>> THEN tx
  ELSE LET shift == Head(removedShifts)
           teamForShift == teamsGet(tx.db.sites[siteId], shift)
       IN unassignShifts(unassignAll(tx, teamForShift, siteId, shift),
                         Tail(removedShifts), siteId)

RECURSIVE deleteShifts(_, _)
deleteShifts(teams, removedShifts) ==
  IF removedShifts = <<>> THEN teams
  ELSE deleteShifts(teamsDelete(teams, Head(removedShifts)), Tail(removedShifts))

updateSite(db, siteId, operatingShifts) ==
  IF siteId \notin Sites THEN Done(db, 404)
  ELSE LET currentShifts == db.sites[siteId].operatingShifts
           updatedShifts == IF operatingShifts = Absent THEN <<>> ELSE operatingShifts
           removedShifts == filter(currentShifts, Range(currentShifts) \ Range(updatedShifts))
           tx == unassignShifts(Begin(db), removedShifts, siteId)
       IN IF tx.err THEN Done(db, 500)
          ELSE Done([tx.db EXCEPT
                       !.sites[siteId].teams = deleteShifts(@, removedShifts),
                       !.sites[siteId].operatingShifts = updatedShifts], 200)

\* ------------------------------------------------------------ deleteUser
deleteUser(db, userId) ==
  IF ~db.users[userId].exists THEN Done(db, 404)
  ELSE Done([db EXCEPT !.users[userId] = RemovedUser], 200)

\* ----------------------------------------------------- updateUserProfile
\* The request body is passed to findByIdAndUpdate as it is; fields the
\* body does not carry are Absent.
NoUpdates ==
  [isAvailable |-> Absent, manualAvailability |-> Absent, kitchenId |-> Absent, shopId |-> Absent]

ProfileUpdates ==
  {NoUpdates,
   [NoUpdates EXCEPT !.isAvailable = "false"],
   [NoUpdates EXCEPT !.kitchenId = "k1"]}

applyUpdates(user, updates) ==
  [user EXCEPT
     !.isAvailable = IF updates.isAvailable = Absent THEN @ ELSE updates.isAvailable = "true",
     !.manualAvailability = IF updates.manualAvailability = Absent THEN @ ELSE updates.manualAvailability,
     !.kitchenId = IF updates.kitchenId = Absent THEN @ ELSE updates.kitchenId,
     !.shopId = IF updates.shopId = Absent THEN @ ELSE updates.shopId]

updateUserProfile(db, userId, updates) ==
  IF ~db.users[userId].exists THEN Done(db, 404)
  ELSE Done([db EXCEPT !.users[userId] = applyUpdates(@, updates)], 200)

\* ------------------------------------------------------------------ Init
\* The store is either fresh (every user registered and every site created)
\* or holds what two roster requests leave: user 1 on the Morning and the
\* Afternoon team of shop s1.  InitAll also starts with the last user not
\* yet registered.
TwoShifts ==
  assignUsersToSiteShift(
    assignUsersToSiteShift(EmptyDb(UserIds), "s1", <<1>>, "Morning").db,
    "s1", <<1>>, "Afternoon").db

InitStores == {EmptyDb(UserIds), TwoShifts}

Store ==
  [users |-> users, sites |-> sites, avail |-> availabilityHistory,
   hist |-> userHistory, notes |-> notifications]

\* Requests as a session holds them.
NoRequest ==
  [op |-> "none", siteId |-> None, userIds |-> <<>>, shiftType |-> None,
   userId |-> 0, isAvailable |-> FALSE]

RosterRequest(siteId, userIds, shiftType) ==
  [NoRequest EXCEPT !.op = "assignUsers", !.siteId = siteId, !.userIds = userIds,
                    !.shiftType = shiftType]

AvailabilityRequest(userId, isAvailable) ==
  [NoRequest EXCEPT !.op = "updateUserAvailability", !.userId = userId,
                    !.isAvailable = isAvailable]

DeleteRequest(siteId) == [NoRequest EXCEPT !.op = "deleteSite", !.siteId = siteId]

NoWrites == [users |-> {}, sites |-> {}]

\* A session without a transaction.
EndedSession ==
  [pc |-> "idle", req |-> NoRequest, snapshot |-> EmptyDb({}), stale |-> NoWrites]

StartFrom(stores) ==
  /\ \E db \in stores :
       /\ users = db.users
       /\ sites = db.sites
       /\ availabilityHistory = db.avail
       /\ userHistory = db.hist
       /\ notifications = db.notes
       /\ origin = db
  /\ res = [op |-> "init", status |-> 200]
  /\ nops = 0
  /\ sessions = [t \in Txs |-> EndedSession]
  /\ committed = <<>>

Init == StartFrom(InitStores)

InitAll == StartFrom(InitStores \cup {EmptyDb(UserIds \ {NumUsers})})

\* One request: the handler's result is committed and replied.
Handle(op, result) ==
  /\ nops < MaxOps
  /\ \E r \in {result} :
       /\ users' = r.db.users
       /\ sites' = r.db.sites
       /\ availabilityHistory' = r.db.avail
       /\ userHistory' = r.db.hist
       /\ notifications' = r.db.notes
       /\ res' = [op |-> op, status |-> r.status]
  /\ nops' = nops + 1
  /\ UNCHANGED <<sessions, committed, origin>>

\* --------------------------------------------------------------- actions
SetShiftRoster(siteId, userIds, shiftType) ==
  Handle("assignUsers", assignUsersToSiteShift(Store, siteId, userIds, shiftType))

SetManualAvailability(userId, isAvailable) ==
  Handle("updateUserAvailability", updateUserAvailability(Store, userId, isAvailable))

DeleteSite(siteId) == Handle("deleteSite", deleteSite(Store, siteId))

RestoreSite(siteId) == Handle("restoreSite", restoreSite(Store, siteId))

UpdateSite(siteId, operatingShifts) ==
  Handle("updateSite", updateSite(Store, siteId, operatingShifts))

Register(userId) ==
  /\ ~users[userId].exists /\ ~users[userId].removed
  /\ Handle("register", register(Store, userId))

DeleteUser(userId) == Handle("deleteUser", deleteUser(Store, userId))

UpdateUserProfile(userId, updates) ==
  Handle("updateUserProfile", updateUserProfile(Store, userId, updates))

RosterRequests ==
  {<<t[1], ids, t[2]>> : t \in RosterTargets, ids \in IdSeqs}
    \cup {<<t[1], <<1>>, t[2]>> : t \in BadTargets}

\* The availability workflow: the operations that write users through the
\* save hook or the bulk update.
NextCoord ==
  \/ \E q \in RosterRequests : SetShiftRoster(q[1], q[2], q[3])
  \/ \E u \in UserIds, isAvailable \in BOOLEAN : SetManualAvailability(u, isAvailable)
  \/ \E s \in Sites : DeleteSite(s)
  \/ \E s \in Sites, shifts \in ShiftUpdates : UpdateSite(s, shifts)

SpecCoord == Init /\ [][NextCoord]_vars

\* Roster requests only.
NextRoster == \E q \in RosterRequests : SetShiftRoster(q[1], q[2], q[3])

SpecRoster == Init /\ [][NextRoster]_vars

\* Roster requests and availability updates only.
NextAvailability ==
  \/ \E q \in RosterRequests : SetShiftRoster(q[1], q[2], q[3])
  \/ \E u \in UserIds, isAvailable \in BOOLEAN : SetManualAvailability(u, isAvailable)

SpecAvailability == Init /\ [][NextAvailability]_vars

Next ==
  \/ \E q \in RosterRequests : SetShiftRoster(q[1], q[2], q[3])
  \/ \E u \in UserIds, isAvailable \in BOOLEAN : SetManualAvailability(u, isAvailable)
  \/ \E s \in Sites : DeleteSite(s)
  \/ \E s \in Sites : RestoreSite(s)
  \/ \E s \in Sites, shifts \in ShiftUpdates : UpdateSite(s, shifts)
  \/ \E u \in UserIds : Register(u)
  \/ \E u \in UserIds : DeleteUser(u)
  \/ \E u \in UserIds, updates \in ProfileUpdates : UpdateUserProfile(u, updates)

Spec == InitAll /\ [][Next]_vars

\* ------------------------------------------------- notification failures
\* A roster request during which the notifications of the users in failed
\* cannot be saved.
SetShiftRosterNotifying(siteId, userIds, shiftType, failed) ==
  Handle("assignUsers",
         assignUsersToSiteShiftNotifying(Store, siteId, userIds, shiftType, failed))

NotifyTargets == {<<"k1", "Morning">>, <<"s1", "Morning">>}

\* Whose notification fails: that of the first user, or all.
FailureSets == {{1}, UserIds}

NextNotify ==
  \/ \E t \in NotifyTargets, ids \in IdSeqs : SetShiftRoster(t[1], ids, t[2])
  \/ \E t \in NotifyTargets, ids \in IdSeqs, failed \in FailureSets :
       SetShiftRosterNotifying(t[1], ids, t[2], failed)

SpecNotify == Init /\ [][NextNotify]_vars

\* ------------------------------------------- rejected writes in a transaction
SetManualAvailabilityFailing(userId, isAvailable, failed) ==
  Handle("updateUserAvailability",
         updateUserAvailabilityFailing(Store, userId, isAvailable, failed))

DeleteSiteFailing(siteId, failed) ==
  Handle("deleteSite", deleteSiteFailing(Store, siteId, failed))

\* The rejected write of a request: none, or one save for one user.
Failures == {NoFailure} \cup [write : WriteKinds, user : UserIds]

NextFailures ==
  \/ \E t \in NotifyTargets, ids \in IdSeqs : SetShiftRoster(t[1], ids, t[2])
  \/ \E u \in UserIds, isAvailable \in BOOLEAN, failed \in Failures :
       SetManualAvailabilityFailing(u, isAvailable, failed)
  \/ \E s \in Sites, failed \in Failures : DeleteSiteFailing(s, failed)

SpecFailures == Init /\ [][NextFailures]_vars

\* ------------------------------------------------ concurrent transactions
\* The handler a session's request runs.
run(db, req) ==
  IF req.op = "assignUsers"
  THEN assignUsersToSiteShift(db, req.siteId, req.userIds, req.shiftType)
  ELSE IF req.op = "deleteSite" THEN deleteSite(db, req.siteId)
  ELSE updateUserAvailability(db, req.userId, req.isAvailable)

\* Documents appended to a collection by a transaction.
inserted(old, new) == SubSeq(new, Len(old) + 1, Len(new))

\* User and site documents a transaction updates: save() sends the modified
\* paths only.  updateUserAvailability pushes onto the user's arrays, and
\* teams.set (of the requested shift, or in a deletion of every shift the
\* site has a roster for) may mark the roster modified although it is the
\* same list (touch).
writes(req, snapshot, db, touch) ==
  [users |-> {u \in UserIds : db.users[u] # snapshot.users[u]}
               \cup (IF req.op = "updateUserAvailability" THEN {req.userId} ELSE {}),
   sites |-> {s \in Sites : db.sites[s] # snapshot.sites[s]}
               \cup (IF req.op = "assignUsers" /\ touch THEN {req.siteId} ELSE {})
               \cup (IF /\ req.op = "deleteSite"
                        /\ touch
                        /\ DOMAIN snapshot.sites[req.siteId].teams # {}
                     THEN {req.siteId} ELSE {})]

\* The unchecked variant: no write is ever refused.
conflictsMutNever(w, stale) == FALSE

\* The variant that looks at user documents only.
conflictsMutUsersOnly(w, stale) == w.users \cap stale.users # {}

conflicts(w, stale) ==
  w.users \cap stale.users # {} \/ w.sites \cap stale.sites # {}

\* The variant that replies the handler's own status after an abort.
replyStatusMutOk(r, commits) == r.status

\* The reply: the handler's own, or 500 from the error middleware when the
\* catch block passed a write conflict to next(error).
replyStatus(r, commits) == IF r.status = 200 /\ ~commits THEN 500 ELSE r.status

\* session.startTransaction and the first read: the transaction reads the
\* store as committed at this point.
StartTransaction(t, req) ==
  /\ nops < MaxOps
  /\ sessions[t].pc = "idle"
  /\ \A o \in Txs : o < t => sessions[o].pc # "idle"
  /\ sessions' = [sessions EXCEPT ![t] =
                    [pc |-> "open", req |-> req, snapshot |-> Store, stale |-> NoWrites]]
  /\ nops' = nops + 1
  /\ UNCHANGED <<users, sites, availabilityHistory, userHistory, notifications,
                 res, committed, origin>>

\* The rest of the handler: it replies early without writing, or its writes
\* meet a document another transaction committed since the snapshot and the
\* transaction is aborted (catch block, 500), or session.commitTransaction
\* makes its writes and inserts visible.
EndTransaction(t, touch) ==
  /\ sessions[t].pc = "open"
  /\ \E session \in {sessions[t]} :
     \E r \in {run(session.snapshot, session.req)} :
     \E w \in {writes(session.req, session.snapshot, r.db, touch)} :
     \E commits \in {r.status = 200 /\ ~conflicts(w, session.stale)} :
     /\ res' = [op |-> session.req.op, status |-> replyStatus(r, commits)]
     /\ IF commits
        THEN /\ users' = [u \in UserIds |->
                           IF u \in w.users THEN r.db.users[u] ELSE users[u]]
             /\ sites' = [s \in Sites |->
                           IF s \in w.sites THEN r.db.sites[s] ELSE sites[s]]
             /\ availabilityHistory' =
                  availabilityHistory \o inserted(session.snapshot.avail, r.db.avail)
             /\ userHistory' = userHistory \o inserted(session.snapshot.hist, r.db.hist)
             /\ notifications' =
                  notifications \o inserted(session.snapshot.notes, r.db.notes)
             /\ committed' = Append(committed, session.req)
             /\ sessions' = [o \in Txs |->
                              IF o = t THEN EndedSession
                              ELSE [sessions[o] EXCEPT
                                      !.stale = [users |-> @.users \cup w.users,
                                                 sites |-> @.sites \cup w.sites]]]
        ELSE /\ sessions' = [sessions EXCEPT ![t] = EndedSession]
             /\ UNCHANGED <<users, sites, availabilityHistory, userHistory,
                            notifications, committed>>
     /\ UNCHANGED <<nops, origin>>

\* Requests sent concurrently: rosters of one kitchen and one shop set to
\* lists of the first two users, and availability updates of these users.
ConcurrentTargets == {<<"k1", "Morning">>, <<"s1", "Morning">>, <<"s1", "Afternoon">>}

ConcurrentLists == {<<>>, <<1>>, <<2>>, <<1, 2>>}

ConcurrentRequests ==
  {RosterRequest(t[1], ids, t[2]) : t \in ConcurrentTargets, ids \in ConcurrentLists}
    \cup {AvailabilityRequest(u, a) : u \in {1, 2}, a \in BOOLEAN}

NextConcurrent ==
  \/ \E t \in Txs, req \in ConcurrentRequests : StartTransaction(t, req)
  \/ \E t \in Txs, touch \in BOOLEAN : EndTransaction(t, touch)

SpecConcurrent == Init /\ [][NextConcurrent]_vars

\* ------------------------------------- deletion against roster requests
\* Deletions of a site sent while roster requests on the same site run.
DeletionSites == {"k1", "s1"}

DeletionRequests ==
  {RosterRequest(t[1], ids, t[2]) : t \in ConcurrentTargets, ids \in ConcurrentLists}
    \cup {DeleteRequest(S) : S \in DeletionSites}

NextDeletion ==
  \/ \E t \in Txs, req \in DeletionRequests : StartTransaction(t, req)
  \/ \E t \in Txs, touch \in BOOLEAN : EndTransaction(t, touch)

SpecDeletion == Init /\ [][NextDeletion]_vars

\* ================================================================ claims

\* C1: for every manual override (Unavailable or unset), kitchen reference
\* and shop reference (set or unset), whether stored on a user or not,
\* computedIsAvailable is false when the override is Unavailable, otherwise
\* false when a kitchen or shop reference is set, otherwise true.
C1_ComputeAvailabilityRules ==
  LET Rules(user) ==
        LET c == computedIsAvailable(user)
            overridden == user.manualAvailability = UNAVAILABLE
            assigned == user.kitchenId # None \/ user.shopId # None
        IN /\ overridden => c = FALSE
           /\ (~overridden /\ assigned) => c = FALSE
           /\ (~overridden /\ ~assigned) => c = TRUE
  IN /\ \A m \in {None, UNAVAILABLE}, k \in Kitchens \cup {None}, s \in Shops \cup {None} :
          Rules([NewUser EXCEPT !.manualAvailability = m, !.kitchenId = k, !.shopId = s])
     /\ \A u \in UserIds : users[u].exists => Rules(users[u])

\* A stored user with the override set and a site reference: rule 1 decides.
C1_Witness ==
  \E u \in UserIds :
    /\ users[u].exists
    /\ users[u].manualAvailability = UNAVAILABLE
    /\ users[u].shopId # None
    /\ ~computedIsAvailable(users[u])

\* C2: in every committed state each stored user's isAvailable equals
\* computedIsAvailable of that user's manualAvailability, kitchenId and
\* shopId.
C2_IsAvailableIsComputed ==
  \A u \in UserIds :
    users[u].exists => users[u].isAvailable = computedIsAvailable(users[u])

\* C3: when a roster request (valid shift, existing undeleted site) names a
\* stored user who is to be assigned (in the desired list, not in the current
\* roster) and whose computed availability is false, the request answers
\* 409 Conflict and commits nothing: users, sites, both histories and the
\* notifications stay as they were.
C3_UnavailableUserAbortsRequest ==
  [][\A q \in RosterRequests :
       (/\ SetShiftRoster(q[1], q[2], q[3])
        /\ q[3] \in ShiftType
        /\ q[1] \in Sites
        /\ ~sites[q[1]].isDeleted
        /\ \E u \in Range(q[2]) \ Range(teamsGet(sites[q[1]], q[3])) :
              users[u].exists /\ ~computedIsAvailable(users[u]))
       => (/\ res'.status = 409
           /\ UNCHANGED <<users, sites, availabilityHistory, userHistory, notifications>>)]_vars

\* C4: every member of every shift roster of every site is a stored user
\* whose reference of that site's kind (kitchenId for a kitchen, shopId for a
\* shop) points to that site.
C4_RosterMembersReferToSite ==
  \A s \in Sites :
    \A sh \in DOMAIN sites[s].teams :
      \A u \in Range(sites[s].teams[sh]) :
        users[u].exists /\ siteRef(users[u], s) = s

\* C5: no stored user has a kitchen reference and a shop reference at the
\* same time.
C5_NotKitchenAndShop ==
  \A u \in UserIds :
    users[u].exists => ~(users[u].kitchenId # None /\ users[u].shopId # None)

\* C6: when a successful roster request removes from shift X of site S a
\* user who refers to S, the user keeps the reference to S exactly when
\* another shift roster of S lists the user, and then stays unavailable;
\* a removed user no other roster of S lists never refers to S afterwards.
C6_ReferenceClearedIffNoOtherShift ==
  [][\A t \in RosterTargets :
       LET S == t[1]
           X == t[2]
           desired == teamsGet(sites'[S], X)
       IN \A u \in Range(teamsGet(sites[S], X)) \ Range(desired) :
            (/\ res' = [op |-> "assignUsers", status |-> 200]
             /\ SetShiftRoster(S, desired, X))
            => LET inOtherShift == \E sh \in DOMAIN sites[S].teams \ {X} :
                                     u \in Range(sites[S].teams[sh])
               IN /\ siteRef(users[u], S) = S =>
                       /\ (siteRef(users'[u], S) = S) <=> inOtherShift
                       /\ inOtherShift => ~users'[u].isAvailable
                  /\ ~inOtherShift => siteRef(users'[u], S) # S]_vars

\* A user taken off the Morning roster of s1 while on its Afternoon roster:
\* the removal is recorded and the user still refers to s1, unavailable.
C6_Witness ==
  /\ res = [op |-> "assignUsers", status |-> 200]
  /\ userHistory # <<>>
  /\ \E u \in UserIds :
       /\ UserHistory(u, UNASSIGNED_FROM_SHOP, "s1", unassignedReason("Morning"))
            = userHistory[Len(userHistory)]
       /\ u \notin Range(teamsGet(sites["s1"], "Morning"))
       /\ u \in Range(teamsGet(sites["s1"], "Afternoon"))
       /\ users[u].shopId = "s1"
       /\ ~users[u].isAvailable

\* C7: marking as unavailable a stored user who refers to a site and is on
\* a roster of it either commits a state where no roster of that site lists
\* the user, both references are unset, the override is Unavailable,
\* isAvailable is false, and exactly one availability entry, one
\* AvailabilityUpdated action entry and one notification were added, all for
\* that user, or fails and commits nothing.
C7_UnavailableRemovesFromAllRosters ==
  [][\A u \in UserIds :
       (/\ SetManualAvailability(u, FALSE)
        /\ users[u].exists
        /\ \E S \in Sites :
              /\ siteRef(users[u], S) = S
              /\ \E sh \in DOMAIN sites[S].teams : u \in Range(sites[S].teams[sh]))
       => IF res'.status = 200
          THEN /\ \A S \in Sites :
                    siteRef(users[u], S) = S =>
                      \A sh \in DOMAIN sites'[S].teams : u \notin Range(sites'[S].teams[sh])
               /\ users'[u].kitchenId = None
               /\ users'[u].shopId = None
               /\ users'[u].manualAvailability = UNAVAILABLE
               /\ users'[u].isAvailable = FALSE
               /\ availabilityHistory' =
                    Append(availabilityHistory, AvailabilityHistory(u, FALSE, AdminReason))
               /\ userHistory' =
                    Append(userHistory, UserHistory(u, AVAILABILITY_UPDATED, None, AdminReason))
               /\ notifications' = Append(notifications, [userId |-> u])
          ELSE UNCHANGED <<users, sites, availabilityHistory, userHistory, notifications>>]_vars

\* C8: deleting a site that N stored users refer to marks it deleted, unsets
\* the reference of exactly those N users and recomputes their isAvailable,
\* leaves every other user as it was, and adds one availability entry, one
\* Unassigned action entry and one notification per such user and no others.
C8_DeleteSiteUnassignsReferrers ==
  [][\A S \in Sites :
       (res'.op = "deleteSite" /\ DeleteSite(S)) =>
         LET N == {u \in UserIds : users[u].exists /\ siteRef(users[u], S) = S}
             added(old, new) == SubSeq(new, Len(old) + 1, Len(new))
             by(u, old, new) == {i \in 1..Len(added(old, new)) : added(old, new)[i].user = u}
             OnePer(old, new) ==
               /\ Len(new) = Len(old) + Cardinality(N)
               /\ SubSeq(new, 1, Len(old)) = old
               /\ \A u \in N : Cardinality(by(u, old, new)) = 1
         IN /\ res'.status = 200
            /\ sites'[S].isDeleted
            /\ \A u \in N :
                 /\ users'[u] = preSave(withSiteRef(users[u], S, None))
                 /\ users'[u].isAvailable =
                      (users[u].manualAvailability # UNAVAILABLE
                       /\ \A T \in Sites \ {S} : siteRef(users[u], T) # T)
            /\ \A u \in UserIds \ N : users'[u] = users[u]
            /\ OnePer(availabilityHistory, availabilityHistory')
            /\ OnePer(userHistory, userHistory')
            /\ \A i \in 1..Len(added(userHistory, userHistory')) :
                 /\ added(userHistory, userHistory')[i].action = unassignedAction(S)
                 /\ added(userHistory, userHistory')[i].site = S
            /\ Len(notifications') = Len(notifications) + Cardinality(N)
            /\ SubSeq(notifications', 1, Len(notifications)) = notifications
            /\ \A u \in N :
                 Cardinality({i \in (Len(notifications) + 1)..Len(notifications') :
                                notifications'[i].userId = u}) = 1]_vars

\* Shop s1 deleted while a user referred to it: the last entries record the
\* deletion for that user, who no longer refers to a shop.
C8_Witness ==
  /\ res = [op |-> "deleteSite", status |-> 200]
  /\ sites["s1"].isDeleted
  /\ userHistory # <<>>
  /\ notifications # <<>>
  /\ \E u \in UserIds :
       /\ UserHistory(u, UNASSIGNED_FROM_SHOP, "s1", deletedDetail("s1"))
            = userHistory[Len(userHistory)]
       /\ users[u].shopId = None
       /\ users[u].isAvailable
       /\ notifications[Len(notifications)] = [userId |-> u]

\* C9: a roster request whose desired list is the current roster of the
\* shift succeeds without adding any history entry or notification and
\* leaves every user and the content of every roster as they were.
C9_SameRosterChangesNothing ==
  [][\A t \in RosterTargets :
       (/\ res'.op = "assignUsers"
        /\ ~sites[t[1]].isDeleted
        /\ SetShiftRoster(t[1], teamsGet(sites[t[1]], t[2]), t[2]))
       => /\ res'.status = 200
          /\ UNCHANGED <<users, availabilityHistory, userHistory, notifications>>
          /\ \A S \in Sites :
               /\ sites'[S].isDeleted = sites[S].isDeleted
               /\ sites'[S].operatingShifts = sites[S].operatingShifts
               /\ \A sh \in ShiftType : teamsGet(sites'[S], sh) = teamsGet(sites[S], sh)]_vars

\* The Morning roster of s1, which lists user 1, was requested again as it
\* is: the request succeeded and the store is the one it started from.
C9_Witness ==
  /\ res = [op |-> "assignUsers", status |-> 200]
  /\ nops = 1
  /\ teamsGet(sites["s1"], "Morning") = <<1>>
  /\ Store = TwoShifts

\* C10: every key of a site's roster map is one of the site's operating
\* shifts; a request for a valid shift the site does not operate creates no
\* roster entry.
C10_RosterKeysAreOperatingShifts ==
  \A s \in Sites : DOMAIN sites[s].teams \subseteq Range(sites[s].operatingShifts)

\* C11: whatever roster and availability requests overlap, the committed
\* users, sites, history collections and notifications are those that the
\* committed requests produce when run one after the other, each to
\* success, in some order from the initial store; two requests on the same
\* site never both commit from the same snapshot.
C11_CommittedIsSerial ==
  LET n == Len(committed)
      orders == {o \in [1..n -> 1..n] : \A i, j \in 1..n : o[i] = o[j] => i = j}
      sameDocuments(a, b) ==
        /\ Len(a) = Len(b)
        /\ \A x \in Range(a) :
             Cardinality({i \in 1..Len(a) : a[i] = x})
               = Cardinality({i \in 1..Len(b) : b[i] = x})
      serial(o) ==
        LET after[i \in 0..n] ==
              IF i = 0 THEN Done(origin, 200) ELSE run(after[i - 1].db, committed[o[i]])
        IN after
  IN \E o \in orders :
       /\ \A i \in 0..n : serial(o)[i].status = 200
       /\ serial(o)[n].db.users = users
       /\ serial(o)[n].db.sites = sites
       /\ sameDocuments(serial(o)[n].db.avail, availabilityHistory)
       /\ sameDocuments(serial(o)[n].db.hist, userHistory)
       /\ sameDocuments(serial(o)[n].db.notes, notifications)

\* A roster request on s1 Morning is still open while another request on
\* the same shift, started from the same roster with a different list, has
\* committed.
C11_Witness ==
  \E t \in Txs :
    /\ sessions[t].pc = "open"
    /\ sessions[t].req.op = "assignUsers"
    /\ sessions[t].req.siteId = "s1"
    /\ sessions[t].req.shiftType = "Morning"
    /\ "s1" \in sessions[t].stale.sites
    /\ committed # <<>>
    /\ committed[Len(committed)].op = "assignUsers"
    /\ committed[Len(committed)].siteId = "s1"
    /\ committed[Len(committed)].shiftType = "Morning"
    /\ committed[Len(committed)].userIds # sessions[t].req.userIds
    /\ sessions[t].req.userIds # teamsGet(sessions[t].snapshot.sites["s1"], "Morning")

\* C12: a roster request (valid shift, existing undeleted site) whose
\* desired list holds an id of no stored user answers 404 NotFound and
\* commits nothing: users, sites, both histories and the notifications stay
\* as they were.
C12_UnknownUserIsNotFound ==
  [][\A q \in RosterRequests :
       (/\ res'.op = "assignUsers"
        /\ q[3] \in ShiftType
        /\ q[1] \in Sites
        /\ ~sites[q[1]].isDeleted
        /\ \E u \in Range(q[2]) : ~users[u].exists
        /\ SetShiftRoster(q[1], q[2], q[3]))
       => (/\ res'.status = 404
           /\ UNCHANGED <<users, sites, availabilityHistory, userHistory, notifications>>)]_vars

\* C13: no shift roster of any kitchen or shop lists a user that was
\* deleted.
C13_DeletedUserOnNoRoster ==
  \A u \in UserIds :
    users[u].removed =>
      \A S \in Sites : \A sh \in DOMAIN sites[S].teams : u \notin Range(sites[S].teams[sh])

\* C14: making available a stored user who refers to a site clears the
\* override and leaves the user's kitchenId and shopId and every roster of
\* every site as they were.
C14_MakingAvailableDoesNotCascade ==
  [][\A u \in UserIds :
       (/\ res' = [op |-> "updateUserAvailability", status |-> 200]
        /\ users[u].exists
        /\ users[u].kitchenId # None \/ users[u].shopId # None
        /\ SetManualAvailability(u, TRUE))
       => (/\ users'[u].manualAvailability = None
           /\ users'[u].kitchenId = users[u].kitchenId
           /\ users'[u].shopId = users[u].shopId
           /\ \A S \in Sites : \A sh \in ShiftType :
                teamsGet(sites'[S], sh) = teamsGet(sites[S], sh))]_vars

\* C15: a roster request, of a valid shift type, on a site id that does
\* not exist or on a deleted site answers 404 NotFound and changes no user,
\* site, history or notification.
C15_MissingSiteIsNotFound ==
  [][\A q \in RosterRequests :
       (/\ res'.op = "assignUsers"
        /\ q[3] \in ShiftType
        /\ q[1] \notin Sites \/ sites[q[1]].isDeleted
        /\ SetShiftRoster(q[1], q[2], q[3]))
       => (/\ res'.status = 404
           /\ UNCHANGED <<users, sites, availabilityHistory, userHistory, notifications>>)]_vars

\* A roster request was answered 404 while a site is deleted.
C15_Witness ==
  /\ res = [op |-> "assignUsers", status |-> 404]
  /\ \E S \in Sites : sites[S].isDeleted

\* C16: a successful roster request appends exactly one availability entry
\* and exactly one action entry for every user in (desired minus current)
\* or (current minus desired), the action being Assigned (to kitchen or
\* shop) for the newly listed users and Unassigned for the removed ones,
\* and appends no entry for any other user.
C16_OneEntryPairPerChangedUser ==
  [][\A t \in RosterTargets :
       LET S == t[1]
           desired == teamsGet(sites'[S], t[2])
           current == teamsGet(sites[S], t[2])
           toAssign == Range(desired) \ Range(current)
           toUnassign == Range(current) \ Range(desired)
           newAvail == inserted(availabilityHistory, availabilityHistory')
           newHist == inserted(userHistory, userHistory')
           entries(new, u) == Cardinality({i \in 1..Len(new) : new[i].user = u})
       IN (/\ res' = [op |-> "assignUsers", status |-> 200]
           /\ SetShiftRoster(S, desired, t[2]))
          => /\ SubSeq(availabilityHistory', 1, Len(availabilityHistory)) = availabilityHistory
             /\ SubSeq(userHistory', 1, Len(userHistory)) = userHistory
             /\ \A u \in UserIds :
                  /\ entries(newAvail, u) = IF u \in toAssign \cup toUnassign THEN 1 ELSE 0
                  /\ entries(newHist, u) = IF u \in toAssign \cup toUnassign THEN 1 ELSE 0
             /\ \A i \in 1..Len(newHist) :
                  newHist[i].action = IF newHist[i].user \in toAssign
                                      THEN assignedAction(S) ELSE unassignedAction(S)]_vars

\* C17: for a stored user U with no override, no kitchen or shop reference,
\* isAvailable true and on no roster of kitchen K, the roster request that
\* adds U to one shift of K succeeds and leaves U with isAvailable false and
\* kitchenId K; the following request that sets the shift's roster back
\* succeeds and leaves U with isAvailable true and kitchenId unset, the
\* user document U started with.
C17_AssignThenUnassignRoundTrip ==
  \A K \in Kitchens : \A X \in Range(sites[K].operatingShifts) : \A U \in UserIds :
    (/\ ~sites[K].isDeleted
     /\ users[U].exists
     /\ users[U].manualAvailability = None
     /\ users[U].kitchenId = None
     /\ users[U].shopId = None
     /\ users[U].isAvailable
     /\ \A sh \in DOMAIN sites[K].teams : U \notin Range(sites[K].teams[sh]))
    => \A current \in {teamsGet(sites[K], X)} :
       \A added \in {assignUsersToSiteShift(Store, K, Append(current, U), X)} :
       \A removed \in {assignUsersToSiteShift(added.db, K, current, X)} :
          /\ added.status = 200
          /\ added.db.users[U].isAvailable = FALSE
          /\ added.db.users[U].kitchenId = K
          /\ U \in Range(teamsGet(added.db.sites[K], X))
          /\ removed.status = 200
          /\ removed.db.users[U].isAvailable = TRUE
          /\ removed.db.users[U].kitchenId = None
          /\ removed.db.users[U] = users[U]
          /\ U \notin Range(teamsGet(removed.db.sites[K], X))

\* Two requests did the round trip: a user was put on the Morning roster of
\* k1 and taken off it again, and is available with no kitchen.
C17_Witness ==
  /\ nops = 2
  /\ res = [op |-> "assignUsers", status |-> 200]
  /\ Len(userHistory) >= 2
  /\ \E U \in UserIds :
       /\ userHistory[Len(userHistory) - 1]
            = UserHistory(U, ASSIGNED_TO_KITCHEN, "k1", assignedReason("k1"))
       /\ userHistory[Len(userHistory)]
            = UserHistory(U, UNASSIGNED_FROM_KITCHEN, "k1", unassignedReason("Morning"))
       /\ users[U].isAvailable
       /\ users[U].kitchenId = None
       /\ \A sh \in DOMAIN sites["k1"].teams : U \notin Range(sites["k1"].teams[sh])

\* C18: when a transaction of a roster or availability request that would
\* succeed on its snapshot writes a user or site document that another
\* transaction committed since that snapshot, the request is answered with
\* an error (500), its session ends without running the request again, and
\* users, sites, both histories, notifications and the list of committed
\* requests stay as they were.
C18_ConflictIsAnErrorWithoutWrites ==
  [][\A t \in Txs : \A touch \in BOOLEAN :
       (/\ sessions[t].pc = "open"
        /\ LET r == run(sessions[t].snapshot, sessions[t].req)
               w == writes(sessions[t].req, sessions[t].snapshot, r.db, touch)
           IN /\ r.status = 200
              /\ \/ w.users \cap sessions[t].stale.users # {}
                 \/ w.sites \cap sessions[t].stale.sites # {}
        /\ EndTransaction(t, touch))
       => (/\ res' = [op |-> sessions[t].req.op, status |-> 500]
           /\ sessions'[t] = EndedSession
           /\ \A o \in Txs \ {t} : sessions'[o] = sessions[o]
           /\ UNCHANGED <<users, sites, availabilityHistory, userHistory, notifications,
                          committed, nops>>)]_vars

\* The second of two overlapping requests was refused: one request is
\* committed, the last reply is 500 and no transaction is open.
C18_Witness ==
  /\ res.status = 500
  /\ nops = 2
  /\ Len(committed) = 1
  /\ \A t \in Txs : sessions[t] = EndedSession

\* C19: a successful roster request adds exactly one notification for each
\* user it assigned or unassigned (desired minus current, current minus
\* desired) and none for any other user.
C19_OneNotificationPerChangedUser ==
  [][\A t \in RosterTargets :
       LET S == t[1]
           desired == teamsGet(sites'[S], t[2])
           current == teamsGet(sites[S], t[2])
           changed == (Range(desired) \ Range(current)) \cup (Range(current) \ Range(desired))
           new == inserted(notifications, notifications')
       IN (/\ res' = [op |-> "assignUsers", status |-> 200]
           /\ SetShiftRoster(S, desired, t[2]))
          => /\ SubSeq(notifications', 1, Len(notifications)) = notifications
             /\ \A u \in UserIds :
                  Cardinality({i \in 1..Len(new) : new[i].userId = u})
                    = IF u \in changed THEN 1 ELSE 0]_vars

\* C20: a roster request some of whose notifications, sent after the
\* commit, cannot be saved replies what the same request replies without
\* failures (success) and commits the same users, sites, availability
\* entries and action entries; only the failed notifications are missing.
C20_NotificationFailureIsNotFatal ==
  [][\A t \in NotifyTargets : \A ids \in IdSeqs : \A failed \in FailureSets :
       LET ok == assignUsersToSiteShift(Store, t[1], ids, t[2])
           new == inserted(notifications, notifications')
           expected == inserted(notifications, ok.db.notes)
       IN (/\ res'.op = "assignUsers"
           /\ res'.status = 200 => teamsGet(sites'[t[1]], t[2]) = ids
           /\ ok.status = 200
           /\ SetShiftRosterNotifying(t[1], ids, t[2], failed))
          => /\ res'.status = 200
             /\ users' = ok.db.users
             /\ sites' = ok.db.sites
             /\ availabilityHistory' = ok.db.avail
             /\ userHistory' = ok.db.hist
             /\ SubSeq(notifications', 1, Len(notifications)) = notifications
             /\ new = filter(expected, {[userId |-> u] : u \in UserIds \ failed})]_vars

\* A request put a user on a roster and replied success, and the store
\* holds fewer notifications than action entries: one was lost.
C20_Witness ==
  /\ res = [op |-> "assignUsers", status |-> 200]
  /\ userHistory # <<>>
  /\ userHistory[Len(userHistory)].action \in {ASSIGNED_TO_KITCHEN, ASSIGNED_TO_SHOP}
  /\ Len(notifications) < Len(userHistory)
  /\ \E S \in Sites : \E u \in UserIds :
       /\ userHistory[Len(userHistory)].user = u
       /\ userHistory[Len(userHistory)].site = S
       /\ u \in Range(teamsGet(sites[S], "Morning"))
       /\ siteRef(users[u], S) = S

\* C21: when the save of an availability entry, an action entry or a
\* notification is rejected inside the transaction of an availability
\* update of a stored user, or of the deletion of a site for a user who
\* refers to it, the request is answered with an error (500) and users
\* (override, references, isAvailable), sites (rosters, isDeleted), both
\* history collections and the notifications are as before the call.
C21_RejectedWriteAbortsAll ==
  [][\A failed \in Failures \ {NoFailure} :
       (\/ /\ res'.op = "updateUserAvailability"
           /\ users[failed.user].exists
           /\ \E isAvailable \in BOOLEAN :
                SetManualAvailabilityFailing(failed.user, isAvailable, failed)
        \/ /\ res'.op = "deleteSite"
           /\ \E S \in Sites :
                /\ users[failed.user].exists
                /\ siteRef(users[failed.user], S) = S
                /\ DeleteSiteFailing(S, failed))
       => (/\ res'.status = 500
           /\ UNCHANGED <<users, sites, availabilityHistory, userHistory, notifications>>)]_vars

\* The deletion of shop s1 was answered 500 while users refer to s1 and to
\* no other site: s1 is not deleted and still lists them.
C21_Witness ==
  /\ res = [op |-> "deleteSite", status |-> 500]
  /\ ~sites["s1"].isDeleted
  /\ \A u \in UserIds : users[u].kitchenId = None
  /\ \E u \in UserIds :
       /\ users[u].shopId = "s1"
       /\ ~users[u].isAvailable
       /\ u \in Range(teamsGet(sites["s1"], "Morning"))

\* C22: in every state where a request can still be handled, every roster
\* request for shift X of site S that succeeds commits a store in which the
\* roster of (S, X) holds exactly the ids of the desired list, and the
\* roster of every other shift of S and every roster of every other site
\* is as it was.
C22_RosterIsDesiredOthersUnchanged ==
  nops < MaxOps =>
    \A q \in RosterRequests :
      \A r \in {assignUsersToSiteShift(Store, q[1], q[2], q[3])} :
        r.status = 200
        => /\ Range(teamsGet(r.db.sites[q[1]], q[3])) = Range(q[2])
           /\ \A S \in Sites : \A sh \in ShiftType :
                (S # q[1] \/ sh # q[3])
                => teamsGet(r.db.sites[S], sh) = teamsGet(sites[S], sh)

\* One request changed the Morning roster of s1 from user 1 to users 1 and
\* 2, and the Afternoon roster of s1 still lists user 1.
C22_Witness ==
  /\ res = [op |-> "assignUsers", status |-> 200]
  /\ nops = 1
  /\ origin = TwoShifts
  /\ teamsGet(sites["s1"], "Morning") = <<1, 2>>
  /\ teamsGet(sites["s1"], "Afternoon") = <<1>>

\* C23: in every state where a request can still be handled, a roster
\* request (valid shift, existing undeleted site) whose desired list keeps
\* at least one user of the shift's current roster, the kept users
\* referring to the site and so unavailable, and adds only stored users
\* whose computed availability is true, succeeds; the kept users are not
\* refused: their documents stay as they were and no history entry or
\* notification is created for them.
C23_RetainedUsersAreNotChecked ==
  nops < MaxOps =>
    \A q \in RosterRequests :
      (/\ q[3] \in ShiftType
       /\ q[1] \in Sites
       /\ ~sites[q[1]].isDeleted
       /\ LET current == Range(teamsGet(sites[q[1]], q[3]))
          IN /\ Range(q[2]) \cap current # {}
             /\ \A u \in Range(q[2]) \cap current :
                  /\ users[u].exists
                  /\ siteRef(users[u], q[1]) = q[1]
                  /\ ~computedIsAvailable(users[u])
             /\ \A u \in Range(q[2]) \ current :
                  users[u].exists /\ computedIsAvailable(users[u]))
      => \A r \in {assignUsersToSiteShift(Store, q[1], q[2], q[3])} :
           LET kept == Range(q[2]) \cap Range(teamsGet(sites[q[1]], q[3]))
               newAvail == inserted(availabilityHistory, r.db.avail)
               newHist == inserted(userHistory, r.db.hist)
               newNotes == inserted(notifications, r.db.notes)
           IN /\ r.status = 200
              /\ \A u \in kept :
                   /\ r.db.users[u] = users[u]
                   /\ u \in Range(teamsGet(r.db.sites[q[1]], q[3]))
                   /\ \A i \in 1..Len(newAvail) : newAvail[i].user # u
                   /\ \A i \in 1..Len(newHist) : newHist[i].user # u
                   /\ \A i \in 1..Len(newNotes) : newNotes[i].userId # u
              /\ \A u \in Range(q[2]) \ kept : siteRef(r.db.users[u], q[1]) = q[1]

\* One request added user 2 to the Afternoon roster of s1, which kept user
\* 1: both refer to s1 and one action entry was added, for user 2.
C23_Witness ==
  /\ res = [op |-> "assignUsers", status |-> 200]
  /\ nops = 1
  /\ origin = TwoShifts
  /\ teamsGet(sites["s1"], "Afternoon") = <<1, 2>>
  /\ users[1] = origin.users[1]
  /\ users[2].shopId = "s1"
  /\ userHistory = Append(origin.hist, UserHistory(2, ASSIGNED_TO_SHOP, "s1", assignedReason("s1")))

\* C24: a user can hold several shifts of one site: in every state where
\* a request can still be handled, a roster request (stored users only)
\* that adds a stored user who refers to site S and is on the roster of one
\* shift of S to the roster of another shift of S succeeds, and the user
\* is on both rosters, still refers to S and is unavailable.
C24_UserCanHoldSeveralShifts ==
  nops < MaxOps =>
    \A q \in RosterRequests :
      (/\ q[3] \in ShiftType
       /\ q[1] \in Sites
       /\ ~sites[q[1]].isDeleted
       /\ \A v \in Range(q[2]) : users[v].exists)
      => \A u \in Range(q[2]) :
           (/\ siteRef(users[u], q[1]) = q[1]
            /\ u \notin Range(teamsGet(sites[q[1]], q[3]))
            /\ \E sh \in ShiftType \ {q[3]} : u \in Range(teamsGet(sites[q[1]], sh)))
           => \A r \in {assignUsersToSiteShift(Store, q[1], q[2], q[3])} :
                /\ r.status = 200
                /\ u \in Range(teamsGet(r.db.sites[q[1]], q[3]))
                /\ \E sh \in ShiftType \ {q[3]} : u \in Range(teamsGet(r.db.sites[q[1]], sh))
                /\ siteRef(r.db.users[u], q[1]) = q[1]
                /\ ~r.db.users[u].isAvailable

\* From the store without assignments two requests put a user on the
\* Morning and on the Afternoon roster of the same site.
C24_Witness ==
  /\ res = [op |-> "assignUsers", status |-> 200]
  /\ nops = 2
  /\ origin = EmptyDb(UserIds)
  /\ \E S \in Sites : \E u \in UserIds :
       /\ u \in Range(teamsGet(sites[S], "Morning"))
       /\ u \in Range(teamsGet(sites[S], "Afternoon"))
       /\ siteRef(users[u], S) = S

\* C25: every availability entry appended by a successful roster request,
\* availability update or site deletion carries the resulting status: it
\* is Available exactly when the isAvailable of the entry's user is true
\* in the state the operation commits.
C25_EntryStatusIsResultingStatus ==
  [][(/\ res'.op \in {"assignUsers", "updateUserAvailability", "deleteSite"}
      /\ res'.status = 200)
     => \A e \in Range(inserted(availabilityHistory, availabilityHistory')) :
          e.status = statusOf(users'[e.user].isAvailable)]_vars

\* C26: a roster is a set: after a successful roster request whose desired
\* list names a user more than once, who was not on the shift's roster, the
\* committed roster lists that user once, and exactly one availability
\* entry and one action entry were appended for that user.
C26_DuplicateIdsCountOnce ==
  [][\A q \in RosterRequests :
       LET ids == q[2]
           repeated == {u \in Range(ids) : Cardinality({i \in 1..Len(ids) : ids[i] = u}) > 1}
           roster == teamsGet(sites'[q[1]], q[3])
           newAvail == inserted(availabilityHistory, availabilityHistory')
           newHist == inserted(userHistory, userHistory')
       IN (/\ res' = [op |-> "assignUsers", status |-> 200]
           /\ repeated # {}
           /\ SetShiftRoster(q[1], ids, q[3]))
          => \A u \in repeated \ Range(teamsGet(sites[q[1]], q[3])) :
               /\ Cardinality({i \in 1..Len(roster) : roster[i] = u}) = 1
               /\ Cardinality({i \in 1..Len(newAvail) : newAvail[i].user = u}) = 1
               /\ Cardinality({i \in 1..Len(newHist) : newHist[i].user = u}) = 1]_vars

\* C27: in every state committed by a sequence of availability updates and
\* roster requests, a stored user whose manual override is Unavailable is
\* on no shift roster of any site and has neither kitchenId nor shopId.
C27_OverriddenUserIsUnassigned ==
  \A u \in UserIds :
    (users[u].exists /\ users[u].manualAvailability = UNAVAILABLE)
    => /\ users[u].kitchenId = None
       /\ users[u].shopId = None
       /\ \A S \in Sites : \A sh \in DOMAIN sites[S].teams : u \notin Range(sites[S].teams[sh])

\* C28: in every committed state every stored user whose kitchenId or
\* shopId points to site S is on at least one shift roster of S; so after
\* a site update that removes two operating shifts which both list the same
\* user, that user no longer refers to the site.
C28_ReferrerIsOnARoster ==
  \A u \in UserIds : \A S \in Sites :
    (users[u].exists /\ siteRef(users[u], S) = S)
    => \E sh \in DOMAIN sites[S].teams : u \in Range(sites[S].teams[sh])

\* C29: a site update that does not supply operatingShifts leaves the
\* operating shifts and every shift roster of the site as they were,
\* changes no user and adds no history entry.
C29_UpdateWithoutShiftsKeepsRosters ==
  [][\A S \in Sites :
       (res'.op = "updateSite" /\ UpdateSite(S, Absent))
       => /\ sites'[S].operatingShifts = sites[S].operatingShifts
          /\ sites'[S].teams = sites[S].teams
          /\ UNCHANGED <<users, availabilityHistory, userHistory>>]_vars

====
